---- MODULE Spec2Model ----
(***************************************************************************)
(* The Vortex commitment tree (contracts/sources/merkle_tree.move), the    *)
(* pool that owns it (contracts/sources/vortex.move), the single-leaf tree *)
(* of package/sources/merkle_tree.move, and the Merkle path service of the *)
(* api (services/merkle-tree.ts).                                          *)
(*                                                                         *)
(* Spec is the tree alone, SpecSteps the tree with append_pair taken       *)
(* statement by statement, SpecPool the pool, SpecPackage the single-leaf  *)
(* tree, SpecRegistry the registry of pools, SpecApi the path service with *)
(* calls made one after another, and SpecCache the service with calls      *)
(* interleaving at their awaits.                                           *)
(*                                                                         *)
(* A u256 value is a tuple: <<n>> is the integer n, <<a, b>> is the output *)
(* of poseidon_bn254 on the field elements a and b.  The hash is opaque:   *)
(* two outputs are equal only when their operands are, and an output is    *)
(* never equal to an integer literal.                                      *)
(*                                                                         *)
(* HEIGHT, ROOT_HISTORY_SIZE and BN254_FIELD_MODULUS are the program's     *)
(* constants scaled down (26, 100 and the BN254 prime in the source) so    *)
(* that a full tree and a wrapped ring are reachable.                      *)
(***************************************************************************)
EXTENDS Integers, Sequences, FiniteSets, TLC

HEIGHT == 3
ROOT_HISTORY_SIZE == 3
BN254_FIELD_MODULUS == 5

\* bounds of the model: the field elements a caller chooses commitments
\* among, and the disjoint nullifier pairs available to transactions
MaxCommitment == 1
MaxPairs == 4

\* bound of the model: the commitment documents the indexer stores
MaxDocs == 3

\* bound of the model: the documents stored while calls run concurrently
MaxCacheDocs == 2

\* bound of the model: the transactions run on the registry
MaxRegistryTxs == 3

VARIABLES
    next_index,      \* MerkleTree.next_index
    subtrees,        \* MerkleTree.subtrees, indexed 0..HEIGHT-1
    root_history,    \* MerkleTree.root_history, a Table<u64, u256>
    root_index,      \* MerkleTree.root_index
    balance,         \* Vortex.balance, in coins
    nullifier_hashes,\* Vortex.nullifier_hashes, the keys of the Table<u256, bool>
    events,          \* the NewCommitment events emitted, in order
    spent_emitted,   \* the NullifierSpent events emitted: nullifier -> how many
    leaves,          \* history: the commitments appended so far, in order
    roots,           \* history: every root that has been current, oldest first
    collection,      \* MongoDB new_commitments: the set of CommitmentDocument
    redis,           \* Redis: key -> value, for the keys that are set
    calls,           \* the calls of getOrBuildMerkleTree in progress, by process
    frame,           \* the call of append_pair in progress, if any
    pools,           \* Registry.pools, a Table<String, address>
    encryption_keys, \* Registry.encryption_keys, a Table<address, String>
    shared_pools,    \* the Vortex objects shared so far
    registry_events, \* the NewPool and NewEncryptionKey events emitted, in order
    tx_count,        \* the transactions run on the registry: the next digest
    last             \* the call made by the last step and how it ended

tree_vars == <<next_index, subtrees, root_history, root_index>>
pool_vars == <<balance, nullifier_hashes, events, spent_emitted>>
api_vars == <<collection, redis, calls>>
registry_vars == <<pools, encryption_keys, shared_pools, registry_events, tx_count>>
vars == <<next_index, subtrees, root_history, root_index, balance,
          nullifier_hashes, events, spent_emitted, leaves, roots,
          collection, redis, calls, frame, pools, encryption_keys,
          shared_pools, registry_events, tx_count, last>>

----------------------------------------------------------------------------
(* u256 values and the hash *)

Zero == <<0>>

\* Poseidon("vortex"), the empty-leaf value: a field element below the modulus
ZERO_VALUE == <<1>>

IsLiteral(x) == Len(x) = 1

\* value >= modulus, for a u256 given to the tree from outside
NotInField(x) == IsLiteral(x) /\ x[1] >= BN254_FIELD_MODULUS

\* a % modulus; a hash output is a field element already
Reduced(x) == IF IsLiteral(x) THEN <<x[1] % BN254_FIELD_MODULUS>> ELSE x

poseidon2_unreduced(a, b) == <<a, b>>

poseidon2(a, b) == <<Reduced(a), Reduced(b)>>

RECURSIVE empty_subtree_hashes(_)
empty_subtree_hashes(i) ==
    IF i = 0 THEN ZERO_VALUE
    ELSE poseidon2(empty_subtree_hashes(i - 1), empty_subtree_hashes(i - 1))

----------------------------------------------------------------------------
(* vortex_merkle_tree *)

MerkleTree(ni, st, rh, ri) ==
    [next_index |-> ni, subtrees |-> st, root_history |-> rh, root_index |-> ri]

\* the tree object held in the variables
Self == MerkleTree(next_index, subtrees, root_history, root_index)

new_one_level_short ==
    MerkleTree(0,
               [i \in 0..(HEIGHT - 1) |-> empty_subtree_hashes(i)],
               (0 :> empty_subtree_hashes(HEIGHT - 1)),
               0)

new ==
    MerkleTree(0,
               [i \in 0..(HEIGHT - 1) |-> empty_subtree_hashes(i)],
               (0 :> empty_subtree_hashes(HEIGHT)),
               0)

\* how a call ends: abort = "" when it returned, the error otherwise; self is
\* the object as the call left it
Returned(self) == [abort |-> "", self |-> self]
Aborted(self, code) == [abort |-> code, self |-> self]

has_capacity_inclusive(self) == 2 ^ HEIGHT >= self.next_index

has_capacity_for_two_more(self) == 2 ^ HEIGHT > self.next_index + 2

has_capacity(self) == 2 ^ HEIGHT > self.next_index

start_index_unhalved(self) == self.next_index

start_index(self) == self.next_index \div 2

RECURSIVE append_levels_store_parent(_, _, _, _)
append_levels_store_parent(i, current_index, current_level_hash, st) ==
    IF i >= HEIGHT THEN [hash |-> current_level_hash, subtrees |-> st]
    ELSE LET even == current_index % 2 = 0
             left == IF even THEN current_level_hash ELSE st[i]
             right == IF even THEN empty_subtree_hashes(i) ELSE current_level_hash
             st2 == IF even THEN [st EXCEPT ![i] = poseidon2(left, right)] ELSE st
         IN  append_levels_store_parent(i + 1, current_index \div 2,
                                        poseidon2(left, right), st2)

RECURSIVE append_levels_store_always(_, _, _, _)
append_levels_store_always(i, current_index, current_level_hash, st) ==
    IF i >= HEIGHT THEN [hash |-> current_level_hash, subtrees |-> st]
    ELSE LET even == current_index % 2 = 0
             left == IF even THEN current_level_hash ELSE st[i]
             right == IF even THEN empty_subtree_hashes(i) ELSE current_level_hash
         IN  append_levels_store_always(i + 1, current_index \div 2,
                                        poseidon2(left, right),
                                        [st EXCEPT ![i] = current_level_hash])

\* the loop over the levels 1..HEIGHT-1; yields the root and the subtrees
RECURSIVE append_levels(_, _, _, _)
append_levels(i, current_index, current_level_hash, st) ==
    IF i >= HEIGHT THEN [hash |-> current_level_hash, subtrees |-> st]
    ELSE LET even == current_index % 2 = 0
             left == IF even THEN current_level_hash ELSE st[i]
             right == IF even THEN empty_subtree_hashes(i) ELSE current_level_hash
             st2 == IF even THEN [st EXCEPT ![i] = current_level_hash] ELSE st
         IN  append_levels(i + 1, current_index \div 2, poseidon2(left, right), st2)

\* sui::table: borrowing a key the table does not hold aborts
table_contains(t, k) == k \in DOMAIN t

table_borrow(t, k) ==
    IF table_contains(t, k) THEN [abort |-> "", value |-> t[k]]
    ELSE [abort |-> "EFieldDoesNotExist", value |-> Zero]

\* sui::table::add, on a key the table does not hold
table_add(t, k, v) == (k :> v) @@ t

safe_history_add_keep_old(rh, index, value) ==
    IF table_contains(rh, index) THEN rh
    ELSE table_add(rh, index, value)

safe_history_add_reset(rh, index, value) == (index :> value)

safe_history_add(rh, index, value) ==
    IF table_contains(rh, index) THEN [rh EXCEPT ![index] = value]
    ELSE table_add(rh, index, value)

next_root_index_alternates(self) == IF self.root_index = 0 THEN 1 ELSE 0

next_root_index_stuck(self) == self.root_index

next_root_index(self) == (self.root_index + 1) % ROOT_HISTORY_SIZE

advance_next_index_by_one(self) == self.next_index + 1

\* line 80
advance_next_index(self) == self.next_index + 2

\* lines 52-74: the pair hashed up to the root
hash_up(self, commitment0, commitment1) ==
    append_levels(1, start_index(self), poseidon2(commitment0, commitment1),
                  self.subtrees)

\* the root a successful append_pair computes
new_root(self, commitment0, commitment1) == hash_up(self, commitment0, commitment1).hash

\* lines 52-80: everything after the capacity check
append_pair_body(self, commitment0, commitment1) ==
    LET up == hash_up(self, commitment0, commitment1)
        new_root_index == next_root_index(self)
    IN  MerkleTree(advance_next_index(self),
                   up.subtrees,
                   safe_history_add(self.root_history, new_root_index, up.hash),
                   new_root_index)

append_pair_check_last(self, commitment0, commitment1) ==
    IF has_capacity(self)
    THEN Returned(append_pair_body(self, commitment0, commitment1))
    ELSE Aborted(append_pair_body(self, commitment0, commitment1), "merkle_tree_overflow")

append_pair_abort_advances_ring(self, commitment0, commitment1) ==
    IF has_capacity(self)
    THEN Returned(append_pair_body(self, commitment0, commitment1))
    ELSE Aborted([self EXCEPT !.root_index = next_root_index(self)],
                 "merkle_tree_overflow")

append_pair_twice(self, commitment0, commitment1) ==
    IF ~has_capacity(self) THEN Aborted(self, "merkle_tree_overflow")
    ELSE Returned(append_pair_body(append_pair_body(self, commitment0, commitment1),
                                   commitment0, commitment1))

append_pair(self, commitment0, commitment1) ==
    IF has_capacity(self)
    THEN Returned(append_pair_body(self, commitment0, commitment1))
    ELSE Aborted(self, "merkle_tree_overflow")

\* how a view call ends: the error, or the value it returned
ViewReturned(v) == [abort |-> "", ret |-> v]
ViewAborted(code) == [abort |-> code, ret |-> Zero]

root_of_next_slot(self) ==
    LET b == table_borrow(self.root_history, next_root_index(self))
    IN  IF b.abort = "" THEN ViewReturned(b.value) ELSE ViewAborted(b.abort)

root(self) ==
    LET b == table_borrow(self.root_history, self.root_index)
    IN  IF b.abort = "" THEN ViewReturned(b.value) ELSE ViewAborted(b.abort)

\* the view next_index()
next_index_of(self) == self.next_index

\* lines 99-103: "match", "differ", or the abort of the borrow
slot_check(self, r, i) ==
    IF table_contains(self.root_history, i)
    THEN LET b == table_borrow(self.root_history, i)
         IN  IF b.abort # "" THEN b.abort
             ELSE IF b.value = r THEN "match" ELSE "differ"
    ELSE "differ"

\* lines 105-109: the slot before i, wrapping below 0
previous_slot(i) == IF i = 0 THEN ROOT_HISTORY_SIZE - 1 ELSE i - 1

RECURSIVE known_root_scan_no_wrap(_, _, _)
known_root_scan_no_wrap(self, r, i) ==
    LET c == slot_check(self, r, i)
    IN  IF c = "match" THEN ViewReturned(TRUE)
        ELSE IF c # "differ" THEN [abort |-> c, ret |-> FALSE]
        ELSE IF i = 0 THEN ViewReturned(FALSE)
        ELSE known_root_scan_no_wrap(self, r, i - 1)

\* lines 98-112: the loop of is_known_root, from slot i on
RECURSIVE known_root_scan(_, _, _)
known_root_scan(self, r, i) ==
    LET c == slot_check(self, r, i)
        j == previous_slot(i)
    IN  IF c = "match" THEN ViewReturned(TRUE)
        ELSE IF c # "differ" THEN [abort |-> c, ret |-> FALSE]
        ELSE IF j = self.root_index THEN ViewReturned(FALSE)
        ELSE known_root_scan(self, r, j)

is_zero_root_never(r) == FALSE

is_zero_root(r) == r = Zero

scan_start_at_zero(self) == 0

\* line 96: let mut i = self.root_index
scan_start(self) == self.root_index

is_known_root(self, r) ==
    IF is_zero_root(r) THEN ViewReturned(FALSE)
    ELSE known_root_scan(self, r, scan_start(self))

\* the slots the loop checks from slot i on, in order, n checks having been
\* made before; -1 stands for the checks of a loop that is still running
\* after ROOT_HISTORY_SIZE + 1 of them
RECURSIVE known_root_slots(_, _, _, _)
known_root_slots(self, r, i, n) ==
    LET c == slot_check(self, r, i)
        j == previous_slot(i)
    IN  IF n > ROOT_HISTORY_SIZE THEN <<-1>>
        ELSE IF c # "differ" THEN <<i>>
        ELSE IF j = self.root_index THEN <<i>>
        ELSE <<i>> \o known_root_slots(self, r, j, n + 1)

\* the slots a call of is_known_root checks
slots_checked(self, r) ==
    IF is_zero_root(r) THEN <<>>
    ELSE known_root_slots(self, r, scan_start(self), 0)

----------------------------------------------------------------------------
(* The tree on its own: a caller holding the MerkleTree calls append_pair   *)
(* and the views root, next_index and is_known_root in any order.  A step   *)
(* keeps the object as the call left it, so a write made before an abort    *)
(* would show.                                                              *)

\* values a caller passes as commitments: field elements from the empty-leaf
\* value on, and a u256 that is not below the modulus
Commitments == {<<k>> : k \in 1..MaxCommitment} \cup {<<BN254_FIELD_MODULUS + 2>>}

\* a hash that no tree of this model produces
FOREIGN_ROOT == poseidon2(Zero, Zero)

Range(s) == {s[i] : i \in 1..Len(s)}

RootCandidates == {Zero, ZERO_VALUE, FOREIGN_ROOT} \cup Range(roots)

\* the processes that call the path service
Procs == {1, 2}

\* no call of getOrBuildMerkleTree in progress
NoCall ==
    [pc |-> "idle", coinType |-> "", null |-> TRUE, tree |-> [elements |-> <<>>],
     lastIndex |-> -1]

\* no call of append_pair in progress
NoFrame ==
    [pc |-> "idle", commitment0 |-> Zero, commitment1 |-> Zero,
     current_level_hash |-> Zero]

Call(op, args, abort, ret) == [op |-> op, args |-> args, abort |-> abort, ret |-> ret]

\* vortex::vortex Registry
Registry(p, k) == [pools |-> p, encryption_keys |-> k]

\* init: the registry with no pool and no key
registry_init == Registry(<<>>, <<>>)

Init ==
    /\ next_index = new.next_index
    /\ subtrees = new.subtrees
    /\ root_history = new.root_history
    /\ root_index = new.root_index
    /\ balance = 0
    /\ nullifier_hashes = {}
    /\ events = <<>>
    /\ spent_emitted = <<>>
    /\ leaves = <<>>
    /\ roots = <<empty_subtree_hashes(HEIGHT)>>
    /\ collection = {}
    /\ redis = <<>>
    /\ calls = [p \in Procs |-> NoCall]
    /\ frame = NoFrame
    /\ pools = registry_init.pools
    /\ encryption_keys = registry_init.encryption_keys
    /\ shared_pools = {}
    /\ registry_events = <<>>
    /\ tx_count = 0
    /\ last = Call("new", <<>>, "", FALSE)

AppendPair(c0, c1) ==
    \E res \in {append_pair(Self, c0, c1)} :
    /\ next_index' = res.self.next_index
    /\ subtrees' = res.self.subtrees
    /\ root_history' = res.self.root_history
    /\ root_index' = res.self.root_index
    /\ leaves' = IF res.abort = "" THEN leaves \o <<c0, c1>> ELSE leaves
    /\ roots' = IF res.abort = "" THEN Append(roots, new_root(Self, c0, c1)) ELSE roots
    /\ last' = Call("append_pair", <<c0, c1>>, res.abort, FALSE)
    /\ UNCHANGED <<pool_vars, registry_vars, api_vars, frame>>

IsKnownRoot(r) ==
    /\ last' = LET res == is_known_root(Self, r)
               IN  Call("is_known_root", <<r>>, res.abort, res.ret)
    /\ UNCHANGED <<tree_vars, pool_vars, registry_vars, api_vars, leaves, roots, frame>>

Root ==
    /\ last' = LET res == root(Self)
               IN  Call("root", <<>>, res.abort, res.ret)
    /\ UNCHANGED <<tree_vars, pool_vars, registry_vars, api_vars, leaves, roots, frame>>

NextIndex ==
    /\ last' = Call("next_index", <<>>, "", next_index_of(Self))
    /\ UNCHANGED <<tree_vars, pool_vars, registry_vars, api_vars, leaves, roots, frame>>

Next ==
    \/ \E c0, c1 \in Commitments : AppendPair(c0, c1)
    \/ \E r \in RootCandidates : IsKnownRoot(r)
    \/ Root
    \/ NextIndex

Spec == Init /\ [][Next]_vars

----------------------------------------------------------------------------
(* append_pair statement by statement.  The tree is a field of the shared   *)
(* pool object: append_pair holds it by &mut for the whole call, inside a   *)
(* transaction that commits as one, and the views take it by &.             *)

borrowable_during_append(f) == TRUE

\* a view borrows the tree (self: &MerkleTree) only while no call holds it by
\* &mut
borrowable(f) == f.pc = "idle"

\* lines 47-74: the capacity check, then the loop, which writes subtrees
AppendPairEnter(commitment0, commitment1) ==
    /\ frame.pc = "idle"
    /\ IF has_capacity(Self)
       THEN /\ subtrees' = hash_up(Self, commitment0, commitment1).subtrees
            /\ frame' = [pc |-> "root_index", commitment0 |-> commitment0,
                         commitment1 |-> commitment1,
                         current_level_hash |->
                             hash_up(Self, commitment0, commitment1).hash]
            /\ last' = last
       ELSE /\ last' = Call("append_pair", <<commitment0, commitment1>>,
                            "merkle_tree_overflow", FALSE)
            /\ UNCHANGED <<subtrees, frame>>
    /\ UNCHANGED <<next_index, root_history, root_index, pool_vars, registry_vars, api_vars,
                   leaves, roots>>

\* lines 77-78: self.root_index = new_root_index
AppendPairRootIndex ==
    /\ frame.pc = "root_index"
    /\ root_index' = next_root_index(Self)
    /\ frame' = [frame EXCEPT !.pc = "safe_history_add"]
    /\ UNCHANGED <<next_index, subtrees, root_history, pool_vars, registry_vars, api_vars,
                   leaves, roots, last>>

\* line 79: self.safe_history_add(new_root_index, current_level_hash)
AppendPairHistory ==
    /\ frame.pc = "safe_history_add"
    /\ root_history' = safe_history_add(root_history, root_index,
                                        frame.current_level_hash)
    /\ frame' = [frame EXCEPT !.pc = "next_index"]
    /\ UNCHANGED <<next_index, subtrees, root_index, pool_vars, registry_vars, api_vars,
                   leaves, roots, last>>

\* line 80: self.next_index = self.next_index + 2, and the return
AppendPairNextIndex ==
    /\ frame.pc = "next_index"
    /\ next_index' = advance_next_index(Self)
    /\ frame' = NoFrame
    /\ leaves' = leaves \o <<frame.commitment0, frame.commitment1>>
    /\ roots' = Append(roots, frame.current_level_hash)
    /\ last' = Call("append_pair", <<frame.commitment0, frame.commitment1>>, "", FALSE)
    /\ UNCHANGED <<subtrees, root_history, root_index, pool_vars, registry_vars, api_vars>>

NextSteps ==
    \/ \E c0 \in Commitments : AppendPairEnter(c0, ZERO_VALUE)
    \/ AppendPairRootIndex
    \/ AppendPairHistory
    \/ AppendPairNextIndex
    \/ borrowable(frame) /\ \E r \in RootCandidates : IsKnownRoot(r)
    \/ borrowable(frame) /\ Root
    \/ borrowable(frame) /\ NextIndex

SpecSteps == Init /\ [][NextSteps]_vars

----------------------------------------------------------------------------
(* vortex_merkle_tree of package/: the variant that appends one leaf per     *)
(* call.  It has the fields of MerkleTree and the same views.                *)

\* entry i of zeros_vector!(), i in 0..HEIGHT-1: the value of an empty subtree
\* of i levels, entry 0 being the empty leaf
RECURSIVE zeros_vector(_)
zeros_vector(i) ==
    IF i = 0 THEN ZERO_VALUE ELSE <<zeros_vector(i - 1), zeros_vector(i - 1)>>

\* lines 131-133
assert_poseidon_input(x) == ~NotInField(x)

\* lines 124-129: both inputs asserted below the modulus, then hashed
package_poseidon2(a, b) ==
    IF assert_poseidon_input(a) /\ assert_poseidon_input(b)
    THEN [abort |-> "", value |-> <<a, b>>]
    ELSE [abort |-> "invalid_poseidon_input", value |-> Zero]

package_new ==
    MerkleTree(0,
               [i \in 0..(HEIGHT - 1) |-> zeros_vector(i)],
               (0 :> zeros_vector(HEIGHT - 1)),
               0)

\* lines 86-101: HEIGHT.do!, from level i on
RECURSIVE append_do(_, _, _, _)
append_do(i, current_index, current_level_hash, st) ==
    IF i >= HEIGHT
    THEN [abort |-> "", hash |-> current_level_hash, subtrees |-> st]
    ELSE LET even == current_index % 2 = 0
             left == IF even THEN current_level_hash ELSE st[i]
             right == IF even THEN zeros_vector(i) ELSE current_level_hash
             st2 == IF even THEN [st EXCEPT ![i] = current_level_hash] ELSE st
             h == package_poseidon2(left, right)
         IN  IF h.abort # ""
             THEN [abort |-> h.abort, hash |-> Zero, subtrees |-> st2]
             ELSE append_do(i + 1, current_index \div 2, h.value, st2)

\* lines 71-110; an abort discards the writes made before it
append(self, leaf) ==
    IF ~has_capacity(self) THEN Aborted(self, "merkle_tree_overflow")
    ELSE IF ~assert_poseidon_input(leaf) THEN Aborted(self, "invalid_poseidon_input")
    ELSE LET up == append_do(0, self.next_index, leaf, self.subtrees)
             new_root_index == next_root_index(self)
         IN  IF up.abort # "" THEN Aborted(self, up.abort)
             ELSE Returned(MerkleTree(self.next_index + 1,
                                      up.subtrees,
                                      safe_history_add(self.root_history,
                                                       new_root_index, up.hash),
                                      new_root_index))

InitPackage ==
    /\ next_index = package_new.next_index
    /\ subtrees = package_new.subtrees
    /\ root_history = package_new.root_history
    /\ root_index = package_new.root_index
    /\ balance = 0
    /\ nullifier_hashes = {}
    /\ events = <<>>
    /\ spent_emitted = <<>>
    /\ leaves = <<>>
    /\ roots = <<package_new.root_history[0]>>
    /\ collection = {}
    /\ redis = <<>>
    /\ calls = [p \in Procs |-> NoCall]
    /\ frame = NoFrame
    /\ pools = registry_init.pools
    /\ encryption_keys = registry_init.encryption_keys
    /\ shared_pools = {}
    /\ registry_events = <<>>
    /\ tx_count = 0
    /\ last = Call("new", <<>>, "", FALSE)

\* append returns the index of the leaf, self.next_index - 1
AppendLeaf(leaf) ==
    \E res \in {append(Self, leaf)} :
    /\ next_index' = res.self.next_index
    /\ subtrees' = res.self.subtrees
    /\ root_history' = res.self.root_history
    /\ root_index' = res.self.root_index
    /\ leaves' = IF res.abort = "" THEN Append(leaves, leaf) ELSE leaves
    /\ roots' = IF res.abort = ""
                THEN Append(roots, res.self.root_history[res.self.root_index])
                ELSE roots
    /\ last' = Call("append", <<leaf>>, res.abort,
                    IF res.abort = "" THEN res.self.next_index - 1 ELSE FALSE)
    /\ UNCHANGED <<pool_vars, registry_vars, api_vars, frame>>

\* values a caller passes as the leaf
Leaves == {<<k>> : k \in 1..(MaxCommitment + 1)} \cup {<<BN254_FIELD_MODULUS + 2>>}

NextPackage ==
    \/ \E leaf \in Leaves : AppendLeaf(leaf)
    \/ \E r \in RootCandidates : IsKnownRoot(r)
    \/ Root

SpecPackage == InitPackage /\ [][NextPackage]_vars

----------------------------------------------------------------------------
(* vortex: the pool.  A transaction is atomic: when any call in it aborts,  *)
(* Move discards every write it made, so an aborted process_transaction     *)
(* leaves the pool as it found it.                                          *)

Vortex(b, nh, tree, ev, sp) ==
    [balance |-> b, nullifier_hashes |-> nh, merkle_tree |-> tree,
     events |-> ev, spent_emitted |-> sp]

\* the pool object held in the variables
Pool == Vortex(balance, nullifier_hashes, Self, events, spent_emitted)

\* vortex.id.to_address() of the pool, and the address of some other pool
POOL_ADDRESS == "pool"
OTHER_ADDRESS == "other"

TxReturned(self) == [abort |-> "", self |-> self]
TxAborted(self, code) == [abort |-> code, self |-> self]

assert_address(self, vortex) == vortex = POOL_ADDRESS

assert_root_is_known_skipped(self, r) == ViewReturned(TRUE)

\* the view's abort, or whether the assert passes
assert_root_is_known(self, r) == is_known_root(self.merkle_tree, r)

is_nullifier_spent(self, nullifier) == nullifier \in self.nullifier_hashes

\* ext_data.public_value() aborts on value - relayer_fee below zero
public_value_underflows(tx) == tx.value_sign /\ tx.relayer_fee > tx.value

NewCommitment(index, commitment) == [index |-> index, commitment |-> commitment]

emit_spent(sp, nullifier) ==
    IF nullifier \in DOMAIN sp THEN [sp EXCEPT ![nullifier] = @ + 1]
    ELSE (nullifier :> 1) @@ sp

\* lines 458-461: add both nullifiers; the table's add aborts on a held key
add_nullifiers_unchecked(nh, nullifiers) ==
    [abort |-> "", table |-> nh \cup {nullifiers[1], nullifiers[2]}]

add_nullifiers(nh, nullifiers) ==
    IF nullifiers[1] \in nh \/ nullifiers[2] \in nh \cup {nullifiers[1]}
    THEN [abort |-> "EFieldAlreadyExists", table |-> nh]
    ELSE [abort |-> "", table |-> nh \cup {nullifiers[1], nullifiers[2]}]

\* lines 424-429
nullifiers_unspent(self, nullifiers) ==
    \A k \in 1..Len(nullifiers) : ~is_nullifier_spent(self, nullifiers[k])

commitment_index_of_pair(tree) == next_index_of(tree) \div 2

commitment_index_after_append(tree) == next_index_of(tree) + 2

\* line 466: the index read before the pair is appended
commitment_index(tree) == next_index_of(tree)

\* lines 442-487, once every assert on the proof has passed
settle(self, tx) ==
    LET withdrawn == IF ~tx.value_sign /\ tx.value > 0 THEN tx.value ELSE 0
        added == add_nullifiers(self.nullifier_hashes, tx.input_nullifiers)
        tree == self.merkle_tree
        appended == append_pair(tree, tx.output_commitments[1], tx.output_commitments[2])
        joined == self.balance - withdrawn + tx.deposit
        fee == IF tx.relayer_fee > 0 THEN tx.relayer_fee ELSE 0
    IN  IF tx.value_sign /\ tx.value > 0 /\ tx.deposit # tx.value + tx.relayer_fee
        THEN TxAborted(self, "invalid_deposit_value")
        ELSE IF withdrawn > self.balance THEN TxAborted(self, "ENotEnough")
        ELSE IF added.abort # "" THEN TxAborted(self, added.abort)
        ELSE IF appended.abort # "" THEN TxAborted(self, appended.abort)
        ELSE IF fee > joined THEN TxAborted(self, "ENotEnough")
        ELSE TxReturned(Vortex(
                 joined - fee,
                 added.table,
                 appended.self,
                 self.events \o <<NewCommitment(commitment_index(tree),
                                                tx.output_commitments[1]),
                                  NewCommitment(commitment_index(tree) + 1,
                                                tx.output_commitments[2])>>,
                 emit_spent(emit_spent(self.spent_emitted, tx.input_nullifiers[1]),
                            tx.input_nullifiers[2])))

process_transaction(self, tx) ==
    LET known == assert_root_is_known(self, tx.root)
    IN  IF ~assert_address(self, tx.vortex) THEN TxAborted(self, "invalid_vortex")
        ELSE IF known.abort # "" THEN TxAborted(self, known.abort)
        ELSE IF ~known.ret THEN TxAborted(self, "proof_root_not_known")
        ELSE IF ~tx.ext_data_hash_matches THEN TxAborted(self, "invalid_ext_data_hash")
        ELSE IF public_value_underflows(tx) THEN TxAborted(self, "ARITHMETIC_ERROR")
        ELSE IF ~tx.public_value_matches THEN TxAborted(self, "invalid_public_value")
        ELSE IF ~nullifiers_unspent(self, tx.input_nullifiers)
             THEN TxAborted(self, "nullifier_already_spent")
        ELSE IF ~tx.proof_verifies THEN TxAborted(self, "invalid_proof")
        ELSE settle(self, tx)

----------------------------------------------------------------------------
(* The pool: anyone submits transactions (transact, transact_with_account)  *)

\* what the three checks on the proof and the ext data find: all pass, or one fails
ChecksPass ==
    [ext_data_hash_matches |-> TRUE, public_value_matches |-> TRUE, proof_verifies |-> TRUE]

ProofChecks ==
    {ChecksPass,
     [ChecksPass EXCEPT !.ext_data_hash_matches = FALSE],
     [ChecksPass EXCEPT !.public_value_matches = FALSE],
     [ChecksPass EXCEPT !.proof_verifies = FALSE]}

\* value_sign, value, relayer_fee and the coin sent along: a deposit, a
\* withdrawal, a withdrawal through a relayer, a transfer, a deposit without coin
ValueCases ==
    {[value_sign |-> TRUE, value |-> 1, relayer_fee |-> 0, deposit |-> 1],
     [value_sign |-> FALSE, value |-> 1, relayer_fee |-> 0, deposit |-> 0],
     [value_sign |-> FALSE, value |-> 1, relayer_fee |-> 1, deposit |-> 0],
     [value_sign |-> TRUE, value |-> 0, relayer_fee |-> 0, deposit |-> 0],
     [value_sign |-> TRUE, value |-> 1, relayer_fee |-> 0, deposit |-> 0]}

\* disjoint pairs, a pair that overlaps two of them, and a pair of equals
NullifierPairs ==
    {<<<<2 * k - 1>>, <<2 * k>>>> : k \in 1..MaxPairs}
        \cup {<<<<2>>, <<3>>>>, <<<<1>>, <<1>>>>}

\* the two output commitments of a transaction
Outputs == <<<<2>>, <<3>>>>

CommitmentPairs == {Outputs}

ProofRoots == {Zero} \cup Range(roots)

Deposit == [value_sign |-> TRUE, value |-> 1, relayer_fee |-> 0, deposit |-> 1]

Tx(a, r, n, c, k, v) ==
    [vortex |-> a, root |-> r, input_nullifiers |-> n, output_commitments |-> c,
     ext_data_hash_matches |-> k.ext_data_hash_matches,
     public_value_matches |-> k.public_value_matches,
     proof_verifies |-> k.proof_verifies,
     value_sign |-> v.value_sign, value |-> v.value,
     relayer_fee |-> v.relayer_fee, deposit |-> v.deposit]

\* transactions for this pool whose proof and ext data pass the checks, with
\* any root, nullifiers, commitments and value
WellFormed ==
    {Tx(POOL_ADDRESS, r, n, c, ChecksPass, v) :
        r \in ProofRoots, n \in NullifierPairs, c \in CommitmentPairs, v \in ValueCases}

\* deposits made for another pool or failing a check, with any root and nullifiers
Defective ==
    {Tx(ak[1], r, n, Outputs, ak[2], Deposit) :
        ak \in ({POOL_ADDRESS, OTHER_ADDRESS} \X ProofChecks) \ {<<POOL_ADDRESS, ChecksPass>>},
        r \in ProofRoots, n \in NullifierPairs}

Transactions == WellFormed \cup Defective

ProcessTransaction(tx) ==
    \E res \in {process_transaction(Pool, tx)} :
    LET ok == res.abort = ""
    IN  /\ balance' = res.self.balance
        /\ nullifier_hashes' = res.self.nullifier_hashes
        /\ events' = res.self.events
        /\ spent_emitted' = res.self.spent_emitted
        /\ next_index' = res.self.merkle_tree.next_index
        /\ subtrees' = res.self.merkle_tree.subtrees
        /\ root_history' = res.self.merkle_tree.root_history
        /\ root_index' = res.self.merkle_tree.root_index
        /\ leaves' = IF ok THEN leaves \o tx.output_commitments ELSE leaves
        /\ roots' = IF ok THEN Append(roots, new_root(Self, tx.output_commitments[1],
                                                      tx.output_commitments[2]))
                    ELSE roots
        /\ last' = Call("process_transaction", <<>>, res.abort, FALSE)
        /\ UNCHANGED <<api_vars, registry_vars, frame>>

NextPool ==
    \/ \E r \in ProofRoots, n \in NullifierPairs, c \in CommitmentPairs, v \in ValueCases :
           ProcessTransaction(Tx(POOL_ADDRESS, r, n, c, ChecksPass, v))
    \/ \E tx \in Defective : ProcessTransaction(tx)

SpecPool == Init /\ [][NextPool]_vars

----------------------------------------------------------------------------
(* the registry of pools: vortex::vortex init, new, share, register and the  *)
(* views vortex_address and encryption_key.  A transaction is a sequence of  *)
(* calls that commits as a whole or aborts as a whole.                       *)

\* coin types as the type system names them: defining package, module, name
PoolCoinTypes == {<<"0x2", "sui", "SUI">>, <<"0xa", "usdc", "USDC">>}

Senders == {"alice", "bob"}

EncryptionKeys == {"k1", "k2"}

\* type_name::with_defining_ids<CoinType>().into_string(): the address without
\* its 0x prefix, then the module and the name, joined by ::
type_name_string(coinType) ==
    <<SubSeq(coinType[1], 3, Len(coinType[1])), "::", coinType[2], "::", coinType[3]>>

\* the TxContext of a transaction: its digest, its sender and the number of
\* ids it has created
TxContext(digest, sender) == [tx_hash |-> digest, sender |-> sender, ids_created |-> 0]

\* object::new and table::new: an id derived from the digest and the counter
fresh_object_address(ctx) == <<ctx.tx_hash, ctx.ids_created>>

created(ctx, n) == [ctx EXCEPT !.ids_created = @ + n]

\* table::add aborts when the key is there
table_add_checked(table, key, value) ==
    IF table_contains(table, key)
    THEN [abort |-> "EFieldAlreadyExists", table |-> table]
    ELSE [abort |-> "", table |-> [k \in DOMAIN table \cup {key} |->
                                       IF k = key THEN value ELSE table[k]]]

VortexOf(id, coinType) ==
    [id |-> id, coin_type |-> coinType, curve |-> "bn254", balance |-> 0,
     nullifier_hashes |-> {}, merkle_tree |-> new]

RegistryAborted(code, registry, ctx) ==
    [abort |-> code, registry |-> registry, ctx |-> ctx, ret |-> FALSE, events |-> <<>>]

pool_exists_never(registry, id) == FALSE

\* line 282: registry.pools.contains(id)
pool_exists(registry, id) == table_contains(registry.pools, id)

\* new<CoinType>: the pool of the coin type, recorded in registry.pools; the
\* Vortex takes the first id the call creates, its nullifier table the second
\* and the Merkle tree two more
vortex_new(registry, coinType, ctx) ==
    LET id == type_name_string(coinType)
        vortex == VortexOf(fresh_object_address(ctx), coinType)
        vortex_address == vortex.id
        added == table_add_checked(registry.pools, id, vortex_address)
    IN  IF pool_exists(registry, id)
        THEN RegistryAborted("pool_already_exists", registry, ctx)
        ELSE IF added.abort # ""
        THEN RegistryAborted(added.abort, registry, ctx)
        ELSE [abort |-> "",
              registry |-> [registry EXCEPT !.pools = added.table],
              ctx |-> created(ctx, 4),
              ret |-> vortex,
              events |-> <<[type |-> "NewPool", coin_type |-> coinType,
                            address |-> vortex_address]>>]

\* register: the sender's encryption key, set or replaced by another one
register(registry, encryption_key, ctx) ==
    LET sender == ctx.sender
    IN  IF table_contains(registry.encryption_keys, sender)
           /\ registry.encryption_keys[sender] = encryption_key
        THEN RegistryAborted("key_already_registered", registry, ctx)
        ELSE [abort |-> "",
              registry |-> [registry EXCEPT !.encryption_keys =
                               [a \in DOMAIN @ \cup {sender} |->
                                   IF a = sender THEN encryption_key ELSE @[a]]],
              ctx |-> ctx,
              ret |-> FALSE,
              events |-> <<[type |-> "NewEncryptionKey", sender |-> sender,
                            key |-> encryption_key]>>]

\* Option<T>: none is <<>>, some(x) is <<x>>
vortex_address(registry, coinType) ==
    LET id == type_name_string(coinType)
    IN  IF table_contains(registry.pools, id) THEN <<registry.pools[id]>> ELSE <<>>

encryption_key(registry, address) ==
    IF table_contains(registry.encryption_keys, address)
    THEN <<registry.encryption_keys[address]>>
    ELSE <<>>

TheRegistry == Registry(pools, encryption_keys)

\* new<CoinType> then share, for each coin type of the transaction in turn;
\* the first call that aborts aborts the transaction
RECURSIVE new_and_share(_, _, _, _, _)
new_and_share(registry, objects, emitted, coinTypes, ctx) ==
    IF coinTypes = <<>>
    THEN [abort |-> "", registry |-> registry, shared |-> objects, events |-> emitted]
    ELSE LET res == vortex_new(registry, Head(coinTypes), ctx)
         IN  IF res.abort # ""
             THEN [abort |-> res.abort, registry |-> registry, shared |-> objects,
                   events |-> emitted]
             ELSE new_and_share(res.registry, objects \cup {res.ret},
                                emitted \o res.events, Tail(coinTypes), res.ctx)

CoinTypeCalls ==
    {<<a>> : a \in PoolCoinTypes} \cup {<<a, b>> : a, b \in PoolCoinTypes}

NewPools(coinTypes, sender) ==
    /\ tx_count < MaxRegistryTxs
    /\ \E res \in {new_and_share(TheRegistry, shared_pools, <<>>, coinTypes,
                                 TxContext(tx_count, sender))} :
        /\ tx_count' = tx_count + 1
        /\ last' = Call("new", <<coinTypes>>, res.abort, FALSE)
        /\ IF res.abort = ""
           THEN /\ pools' = res.registry.pools
                /\ shared_pools' = res.shared
                /\ registry_events' = registry_events \o res.events
           ELSE UNCHANGED <<pools, shared_pools, registry_events>>
        /\ UNCHANGED <<tree_vars, pool_vars, api_vars, leaves, roots, frame,
                       encryption_keys>>

Register(sender, key) ==
    /\ tx_count < MaxRegistryTxs
    /\ \E res \in {register(TheRegistry, key, TxContext(tx_count, sender))} :
        /\ tx_count' = tx_count + 1
        /\ last' = Call("register", <<sender, key>>, res.abort, FALSE)
        /\ encryption_keys' = res.registry.encryption_keys
        /\ registry_events' = registry_events \o res.events
        /\ UNCHANGED <<tree_vars, pool_vars, api_vars, leaves, roots, frame,
                       pools, shared_pools>>

VortexAddress(coinType) ==
    /\ last' = Call("vortex_address", <<coinType>>, "",
                    vortex_address(TheRegistry, coinType))
    /\ UNCHANGED <<tree_vars, pool_vars, api_vars, leaves, roots, frame,
                   registry_vars>>

EncryptionKey(address) ==
    /\ last' = Call("encryption_key", <<address>>, "",
                    encryption_key(TheRegistry, address))
    /\ UNCHANGED <<tree_vars, pool_vars, api_vars, leaves, roots, frame,
                   registry_vars>>

NextRegistry ==
    \/ \E coinTypes \in CoinTypeCalls, sender \in Senders : NewPools(coinTypes, sender)
    \/ \E sender \in Senders, key \in EncryptionKeys : Register(sender, key)
    \/ \E coinType \in PoolCoinTypes : VortexAddress(coinType)
    \/ \E address \in Senders : EncryptionKey(address)

SpecRegistry == Init /\ [][NextRegistry]_vars

----------------------------------------------------------------------------
(* api: the Merkle path service (services/merkle-tree.ts).  The indexer      *)
(* stores one CommitmentDocument per NewCommitment event; the service        *)
(* rebuilds a pool's tree from the documents of its coin type, through a     *)
(* snapshot cached in Redis.  A tree of the SDK is given by its elements:    *)
(* its layers, its root and its paths are computed from them.                *)

CoinTypes == {"SUI", "USDC"}

\* MERKLE_TREE_HEIGHT of the SDK: the height of the pool's tree
MERKLE_TREE_HEIGHT == HEIGHT

\* a commitment as a document holds it: the bytes of the u256, lowest first
Hexes == {<<2, 0>>, <<0, 2>>}

Reverse(bytes) == [k \in 1..Len(bytes) |-> bytes[Len(bytes) + 1 - k]]

\* BigInt('0x' + hex): the bytes read highest first
RECURSIVE BigInt(_)
BigInt(bytes) ==
    IF bytes = <<>> THEN 0
    ELSE 256 * BigInt(SubSeq(bytes, 1, Len(bytes) - 1)) + bytes[Len(bytes)]

hexToDecimal_unreversed(hex) == <<BigInt(hex)>>

hexToDecimal(hex) == <<BigInt(Reverse(hex))>>

CommitmentDocument(coinType, index, commitment) ==
    [coin_type |-> coinType, index |-> index, commitment |-> commitment]

RECURSIVE SortByIndex_descending(_)
SortByIndex_descending(docs) ==
    IF docs = {} THEN <<>>
    ELSE LET d == CHOOSE x \in docs : \A y \in docs : x.index >= y.index
         IN  <<d>> \o SortByIndex_descending(docs \ {d})

\* .sort({ index: 1 }).toArray()
RECURSIVE SortByIndex(_)
SortByIndex(docs) ==
    IF docs = {} THEN <<>>
    ELSE LET d == CHOOSE x \in docs : \A y \in docs : x.index <= y.index
         IN  <<d>> \o SortByIndex(docs \ {d})

fetchCommitmentsFromIndex(db, coinType, fromIndex) ==
    SortByIndex({d \in db : d.coin_type = coinType /\ d.index >= fromIndex})

\* the commitments of the documents, as tree elements
Elements(docs) == [k \in 1..Len(docs) |-> hexToDecimal(docs[k].commitment)]

\* poseidon2 of the SDK, on field elements
sdk_poseidon2(a, b) == <<a, b>>

buildMerkleTree(elements) == [elements |-> elements]

bulkInsert(tree, elements) == [tree EXCEPT !.elements = @ \o elements]

\* tree.serialize() and deserializeMerkleTree: the layers, of which layer 0
\* determines the others
serialize(tree) == [levels |-> MERKLE_TREE_HEIGHT, layer0 |-> tree.elements]

deserializeMerkleTree(serialized) == buildMerkleTree(serialized.layer0)

\* node idx of a layer of the tree, ZERO_VALUE standing for every element
\* not inserted yet
RECURSIVE layer_node(_, _, _)
layer_node(elements, level, idx) ==
    IF level = 0
    THEN IF idx < Len(elements) THEN elements[idx + 1] ELSE ZERO_VALUE
    ELSE sdk_poseidon2(layer_node(elements, level - 1, 2 * idx),
                       layer_node(elements, level - 1, 2 * idx + 1))

\* tree.root
tree_root(tree) == layer_node(tree.elements, MERKLE_TREE_HEIGHT, 0)

\* tree.path(index): entry l + 1 is for level l
tree_path(tree, index) ==
    [pathElements |->
        [k \in 1..MERKLE_TREE_HEIGHT |->
            LET idx == index \div (2 ^ (k - 1))
            IN  layer_node(tree.elements, k - 1,
                           IF idx % 2 = 0 THEN idx + 1 ELSE idx - 1)],
     pathIndices |->
        [k \in 1..MERKLE_TREE_HEIGHT |-> (index \div (2 ^ (k - 1))) % 2]]

\* Utxo.makeCommitment: the hash of the UTXO data; a UTXO of the model is
\* named by the commitment its data hashes to
makeCommitment(utxo) == utxo.commitment

getTreeKey(coinType) == <<"merkle_tree:", coinType>>

getLastIndexKey_shared(coinType) == <<"merkle_last_index:", "">>

getLastIndexKey(coinType) == <<"merkle_last_index:", coinType>>

redis_has(r, key) == key \in DOMAIN r

redis_set(r, key, value) ==
    [k \in DOMAIN r \cup {key} |-> IF k = key THEN value ELSE r[k]]

\* null, or the deserialized tree
getCachedTree(r, coinType) ==
    IF redis_has(r, getTreeKey(coinType))
    THEN [null |-> FALSE, tree |-> deserializeMerkleTree(r[getTreeKey(coinType)])]
    ELSE [null |-> TRUE, tree |-> buildMerkleTree(<<>>)]

getCachedLastIndex(r, coinType) ==
    IF redis_has(r, getLastIndexKey(coinType)) THEN r[getLastIndexKey(coinType)]
    ELSE -1

cacheTree(r, coinType, tree, lastIndex) ==
    redis_set(redis_set(r, getTreeKey(coinType), serialize(tree)),
              getLastIndexKey(coinType), lastIndex)

\* index of the last document, or the given index when there is none
last_index_of(docs, otherwise) ==
    IF Len(docs) > 0 THEN docs[Len(docs)].index ELSE otherwise

delta_from_inclusive(lastIndex) == lastIndex

\* fromIndex: lastIndex + 1, the first index the cached tree does not hold
delta_from(lastIndex) == lastIndex + 1

\* one call, run to its end: the tree returned and Redis as the call left it
getOrBuildMerkleTree(db, r, coinType) ==
    LET cached == getCachedTree(r, coinType)
        lastIndex == getCachedLastIndex(r, coinType)
        newCommitments == fetchCommitmentsFromIndex(db, coinType, delta_from(lastIndex))
        allCommitments == fetchCommitmentsFromIndex(db, coinType, 0)
        tree == IF cached.null THEN buildMerkleTree(Elements(allCommitments))
                ELSE bulkInsert(cached.tree, Elements(newCommitments))
        newLastIndex == IF cached.null THEN last_index_of(allCommitments, -1)
                        ELSE last_index_of(newCommitments, lastIndex)
    IN  IF Len(newCommitments) = 0 /\ ~cached.null
        THEN [tree |-> cached.tree, redis |-> r]
        ELSE [tree |-> tree, redis |-> cacheTree(r, coinType, tree, newLastIndex)]

Pair(left, right) == [left |-> left, right |-> right]

zeroPath_of_empty_tree ==
    [k \in 1..MERKLE_TREE_HEIGHT |->
        Pair(layer_node(<<>>, k - 1, 0), layer_node(<<>>, k - 1, 0))]

zeroPath == [k \in 1..MERKLE_TREE_HEIGHT |-> Pair(ZERO_VALUE, ZERO_VALUE)]

in_range_inclusive(index, treeSize) == ~(index < 0 \/ index > treeSize)

\* line 142, negated
in_range(index, treeSize) == ~(index < 0 \/ index >= treeSize)

is_left_inverted(pathIndices, i) == pathIndices[i] # 0

\* line 162
is_left(pathIndices, i) == pathIndices[i] = 0

\* lines 157-170: the pairs from level i on, currentHash being the node of
\* the path at that level
RECURSIVE wasmPath(_, _, _)
wasmPath(p, i, currentHash) ==
    IF i > MERKLE_TREE_HEIGHT THEN <<>>
    ELSE LET sibling == p.pathElements[i]
             isLeft == is_left(p.pathIndices, i)
             leftHash == IF isLeft THEN currentHash ELSE sibling
             rightHash == IF isLeft THEN sibling ELSE currentHash
         IN  <<Pair(leftHash, rightHash)>>
                 \o wasmPath(p, i + 1, sdk_poseidon2(leftHash, rightHash))

PathReturned(path, r, rd) == [error |-> "", path |-> path, root |-> r, redis |-> rd]

PathThrown(message, rd) == [error |-> message, path |-> <<>>, root |-> Zero, redis |-> rd]

commitment_differs_never(storedCommitment, commitment) == FALSE

\* line 152
commitment_differs(storedCommitment, commitment) == storedCommitment # commitment

\* the body of getMerklePath once the tree is there; tree.path throws on an
\* index that is not the index of an element
path_of(built, index, utxo) ==
    LET tree == built.tree
        treeSize == Len(tree.elements)
        commitment == makeCommitment(utxo)
    IN  IF ~in_range(index, treeSize)
        THEN PathReturned(zeroPath, tree_root(tree), built.redis)
        ELSE IF index < 0 \/ index >= treeSize
        THEN PathThrown("Index out of bounds", built.redis)
        ELSE IF commitment_differs(tree.elements[index + 1], commitment)
        THEN PathThrown("Commitment mismatch", built.redis)
        ELSE PathReturned(wasmPath(tree_path(tree, index), 1, commitment),
                          tree_root(tree), built.redis)

getMerklePath(db, r, coinType, index, utxo) ==
    path_of(getOrBuildMerkleTree(db, r, coinType), index, utxo)

\* createMerkleService: the same service over a CommitmentsRepository
findFromIndex(db, coinType, fromIndex) ==
    fetchCommitmentsFromIndex(db, coinType, fromIndex)

service_getOrBuildMerkleTree(db, r, coinType) ==
    LET cachedTree == getCachedTree(r, coinType)
        lastIndex == getCachedLastIndex(r, coinType)
        commitments == findFromIndex(db, coinType,
                                     IF cachedTree.null THEN 0
                                     ELSE delta_from(lastIndex))
        base == IF cachedTree.null THEN buildMerkleTree(<<>>) ELSE cachedTree.tree
        tree == IF Len(commitments) > 0 THEN bulkInsert(base, Elements(commitments))
                ELSE base
        newLastIndex == last_index_of(commitments, lastIndex)
    IN  IF Len(commitments) = 0 /\ ~cachedTree.null
        THEN [tree |-> cachedTree.tree, redis |-> r]
        ELSE [tree |-> tree, redis |-> cacheTree(r, coinType, tree, newLastIndex)]

service_getMerklePath(db, r, coinType, index, utxo) ==
    path_of(service_getOrBuildMerkleTree(db, r, coinType), index, utxo)

\* documents of the coin type stored so far
Stored(coinType) == Cardinality({d \in collection : d.coin_type = coinType})

\* the indexer stores the commitments of a pool in the order of their indices
IndexerAdd(coinType, hex) ==
    /\ Cardinality(collection) < MaxDocs
    /\ collection' = collection \cup {CommitmentDocument(coinType, Stored(coinType), hex)}
    /\ last' = Call("indexer", <<coinType>>, "", FALSE)
    /\ UNCHANGED <<tree_vars, pool_vars, registry_vars, leaves, roots, redis, calls, frame>>

Utxos == {[commitment |-> hexToDecimal(h)] : h \in Hexes}

Indices == -1..MaxDocs

GetMerklePath(coinType, index, utxo) ==
    \E res \in {getMerklePath(collection, redis, coinType, index, utxo)} :
    /\ redis' = res.redis
    /\ last' = Call("getMerklePath", <<coinType, index, utxo>>, res.error,
                    [path |-> res.path, root |-> res.root])
    /\ UNCHANGED <<tree_vars, pool_vars, registry_vars, leaves, roots, collection, calls, frame>>

ServiceGetMerklePath(coinType, index, utxo) ==
    \E res \in {service_getMerklePath(collection, redis, coinType, index, utxo)} :
    /\ redis' = res.redis
    /\ last' = Call("getMerklePath", <<coinType, index, utxo>>, res.error,
                    [path |-> res.path, root |-> res.root])
    /\ UNCHANGED <<tree_vars, pool_vars, registry_vars, leaves, roots, collection, calls, frame>>

NextApi ==
    \/ \E coinType \in CoinTypes, hex \in Hexes : IndexerAdd(coinType, hex)
    \/ \E coinType \in CoinTypes, index \in Indices, utxo \in Utxos :
           GetMerklePath(coinType, index, utxo)
    \/ \E coinType \in CoinTypes, index \in Indices, utxo \in Utxos :
           ServiceGetMerklePath(coinType, index, utxo)

SpecApi == Init /\ [][NextApi]_vars

----------------------------------------------------------------------------
(* concurrent calls of getOrBuildMerkleTree.  A call runs up to each await;  *)
(* the reads and writes of several calls on Redis and on the collection      *)
(* interleave at these points.                                               *)

\* the position of a call and its local variables; lastIndex is -1 where the
\* code no longer reads it
Frame(pc, coinType, null, tree, lastIndex) ==
    [pc |-> pc, coinType |-> coinType, null |-> null, tree |-> tree,
     lastIndex |-> lastIndex]

At(p, pc) == calls[p].pc = pc

\* let tree = await getCachedTree(redis, coinType)
AwaitGetCachedTree(p, coinType) ==
    /\ At(p, "idle") \/ At(p, "returned")
    /\ \E cached \in {getCachedTree(redis, coinType)} :
           calls' = [calls EXCEPT ![p] =
               Frame("getCachedLastIndex", coinType, cached.null, cached.tree, -1)]
    /\ UNCHANGED <<tree_vars, pool_vars, registry_vars, leaves, roots, collection, redis, frame, last>>

\* let lastIndex = await getCachedLastIndex(redis, coinType)
AwaitGetCachedLastIndex(p) ==
    /\ At(p, "getCachedLastIndex")
    /\ calls' = [calls EXCEPT ![p].pc = "fetchCommitmentsFromIndex",
                              ![p].lastIndex = getCachedLastIndex(redis, calls[p].coinType)]
    /\ UNCHANGED <<tree_vars, pool_vars, registry_vars, leaves, roots, collection, redis, frame, last>>

\* const newCommitments = await fetchCommitmentsFromIndex(lastIndex + 1), and
\* the code up to the next await: the early return, or the branch taken
AwaitFetchNewCommitments(p) ==
    /\ At(p, "fetchCommitmentsFromIndex")
    /\ LET c == calls[p]
           newCommitments ==
               fetchCommitmentsFromIndex(collection, c.coinType, delta_from(c.lastIndex))
       IN  calls' = [calls EXCEPT ![p] =
               IF Len(newCommitments) = 0 /\ ~c.null
               THEN Frame("returned", c.coinType, FALSE, c.tree, -1)
               ELSE IF c.null
               THEN Frame("fetchAllCommitments", c.coinType, TRUE, c.tree, -1)
               ELSE Frame("setTreeKey", c.coinType, FALSE,
                          bulkInsert(c.tree, Elements(newCommitments)),
                          last_index_of(newCommitments, c.lastIndex))]
    /\ UNCHANGED <<tree_vars, pool_vars, registry_vars, leaves, roots, collection, redis, frame, last>>

\* const allCommitments = await fetchCommitmentsFromIndex(0), and the build
AwaitFetchAllCommitments(p) ==
    /\ At(p, "fetchAllCommitments")
    /\ LET c == calls[p]
           allCommitments == fetchCommitmentsFromIndex(collection, c.coinType, 0)
       IN  calls' = [calls EXCEPT ![p] =
               Frame("setTreeKey", c.coinType, FALSE,
                     buildMerkleTree(Elements(allCommitments)),
                     last_index_of(allCommitments, -1))]
    /\ UNCHANGED <<tree_vars, pool_vars, registry_vars, leaves, roots, collection, redis, frame, last>>

\* cacheTree: await redis.set(getTreeKey(coinType), ...)
AwaitSetTree(p) ==
    /\ At(p, "setTreeKey")
    /\ redis' = redis_set(redis, getTreeKey(calls[p].coinType), serialize(calls[p].tree))
    /\ calls' = [calls EXCEPT ![p].pc = "setLastIndexKey"]
    /\ UNCHANGED <<tree_vars, pool_vars, registry_vars, leaves, roots, collection, frame, last>>

\* cacheTree: await redis.set(getLastIndexKey(coinType), ...), and return tree
AwaitSetLastIndex(p) ==
    /\ At(p, "setLastIndexKey")
    /\ redis' = redis_set(redis, getLastIndexKey(calls[p].coinType), calls[p].lastIndex)
    /\ calls' = [calls EXCEPT ![p].pc = "returned", ![p].lastIndex = -1]
    /\ UNCHANGED <<tree_vars, pool_vars, registry_vars, leaves, roots, collection, frame, last>>

\* the commitment the pool emits with an index: one per index here
HexOf(index) == IF index % 2 = 0 THEN <<2, 0>> ELSE <<0, 2>>

NextCache ==
    \/ \E coinType \in CoinTypes :
           /\ Cardinality(collection) < MaxCacheDocs
           /\ IndexerAdd(coinType, HexOf(Stored(coinType)))
    \/ \E p \in Procs, coinType \in CoinTypes : AwaitGetCachedTree(p, coinType)
    \/ \E p \in Procs : AwaitGetCachedLastIndex(p)
    \/ \E p \in Procs : AwaitFetchNewCommitments(p)
    \/ \E p \in Procs : AwaitFetchAllCommitments(p)
    \/ \E p \in Procs : AwaitSetTree(p)
    \/ \E p \in Procs : AwaitSetLastIndex(p)

SpecCache == Init /\ [][NextCache]_vars

----------------------------------------------------------------------------
(* The reference the claims compare the tree with *)

\* node idx of the given level of the full binary tree over the leaf list ls,
\* every missing leaf being the empty-leaf value
RECURSIVE MerkleNode(_, _, _)
MerkleNode(ls, level, idx) ==
    IF level = 0
    THEN IF idx < Len(ls) THEN ls[idx + 1] ELSE empty_subtree_hashes(0)
    ELSE poseidon2(MerkleNode(ls, level - 1, 2 * idx),
                   MerkleNode(ls, level - 1, 2 * idx + 1))

FullTreeRoot(ls) == MerkleNode(ls, HEIGHT, 0)

\* successful append_pair calls so far
Appends == Len(roots) - 1

RootsDistinct == \A i, j \in 1..Len(roots) : i # j => roots[i] # roots[j]

PopulatedRoots == {root_history[s] : s \in DOMAIN root_history}

LastIs(op) == last.op = op

----------------------------------------------------------------------------
(* Claims *)

\* C1: after any k successful append_pair calls on a tree created by new,
\* root() is the root of the full binary Merkle tree of height HEIGHT whose
\* first 2k leaves are the appended commitments in order and whose other
\* leaves are the empty-leaf value.
C1_RootEquivalence ==
    /\ Len(leaves) = 2 * Appends
    /\ root(Self) = ViewReturned(FullTreeRoot(leaves))

C1_Witness ==
    /\ LastIs("append_pair") /\ last.abort = ""
    /\ next_index = 2 ^ HEIGHT
    /\ leaves[1] # ZERO_VALUE /\ leaves[Len(leaves)] # ZERO_VALUE

\* C2: with distinct roots, once more than ROOT_HISTORY_SIZE appends have
\* succeeded, is_known_root is false for every root that was current more than
\* ROOT_HISTORY_SIZE appends ago and true for each of the ROOT_HISTORY_SIZE
\* most recent roots, the current one included.
C2_RootHistoryBound ==
    (Appends >= ROOT_HISTORY_SIZE + 1 /\ RootsDistinct) =>
        \A j \in 1..Len(roots) :
            /\ Len(roots) - j > ROOT_HISTORY_SIZE =>
                   is_known_root(Self, roots[j]) = ViewReturned(FALSE)
            /\ Len(roots) - j < ROOT_HISTORY_SIZE =>
                   is_known_root(Self, roots[j]) = ViewReturned(TRUE)

C2_Witness ==
    /\ Appends >= ROOT_HISTORY_SIZE + 1 /\ RootsDistinct
    /\ LastIs("is_known_root") /\ last.args = <<roots[1]>> /\ last.ret = FALSE

\* the root is not 0 and a populated slot of the pool's root_history holds it
RootRetained(r) == r # Zero /\ r \in PopulatedRoots

\* C3 as stated: a pool transaction succeeds only if its proof's root is
\* known, and one whose root is 0 or not retained aborts with
\* proof_root_not_known, leaving the pool unchanged.
C3_UnknownRootAbortCode ==
    \A tx \in Transactions :
        \A res \in {process_transaction(Pool, tx)} :
            /\ res.abort = "" => RootRetained(tx.root)
            /\ ~RootRetained(tx.root) =>
                   (res.abort = "proof_root_not_known" /\ res.self = Pool)

\* C3 amended: a pool transaction succeeds only if its proof's root is known;
\* one whose root is 0 or not retained aborts and leaves the pool unchanged,
\* with proof_root_not_known when the proof names this pool and with
\* invalid_vortex (the earlier assert_address) when it names another.
C3_UnknownRootAborts ==
    \A tx \in Transactions :
        \A res \in {process_transaction(Pool, tx)} :
            /\ res.abort = "" => RootRetained(tx.root)
            /\ ~RootRetained(tx.root) =>
                   /\ res.abort = IF tx.vortex = POOL_ADDRESS
                                  THEN "proof_root_not_known" ELSE "invalid_vortex"
                   /\ res.self = Pool

C3_Witness ==
    /\ LastIs("process_transaction") /\ last.abort = "proof_root_not_known"
    /\ Appends > ROOT_HISTORY_SIZE
    /\ balance > 0

\* C4: no nullifier is recorded as spent by more than one successful
\* transaction; a transaction with a nullifier already in nullifier_hashes, or
\* with two equal input nullifiers, aborts and leaves nullifier_hashes, the
\* tree and the balance unchanged.
C4_NoDoubleSpend ==
    /\ \A n \in DOMAIN spent_emitted : spent_emitted[n] = 1
    /\ DOMAIN spent_emitted = nullifier_hashes
    /\ \A tx \in Transactions :
           \A res \in {process_transaction(Pool, tx)} :
           LET n == tx.input_nullifiers
           IN  (n[1] \in nullifier_hashes \/ n[2] \in nullifier_hashes \/ n[1] = n[2]) =>
                   (res.abort # "" /\ res.self = Pool)

C4_Witness ==
    /\ LastIs("process_transaction") /\ last.abort = "EFieldAlreadyExists"
    /\ nullifier_hashes # {}
    /\ balance > 0

\* C5: next_index never exceeds 2^HEIGHT, and an append_pair on a tree at
\* capacity aborts with merkle_tree_overflow, leaving next_index and the
\* appended leaves as they were.
C5_CapacityInvariant ==
    [][/\ next_index' <= 2 ^ HEIGHT
       /\ (next_index = 2 ^ HEIGHT /\ last'.op = "append_pair") =>
              /\ last'.abort = "merkle_tree_overflow"
              /\ next_index' = next_index
              /\ leaves' = leaves]_vars

C5_Witness ==
    /\ next_index = 2 ^ HEIGHT
    /\ LastIs("append_pair") /\ last.abort = "merkle_tree_overflow"
    /\ Len(leaves) = 2 ^ HEIGHT

\* C6: from a fresh tree exactly 2^HEIGHT / 2 append_pair calls succeed: a
\* call succeeds whenever fewer have succeeded before it, and fails with
\* merkle_tree_overflow once that many have.
C6_ExactCapacity ==
    LastIs("append_pair") =>
        IF last.abort = "" THEN Appends <= (2 ^ HEIGHT) \div 2
        ELSE last.abort = "merkle_tree_overflow" /\ Appends = (2 ^ HEIGHT) \div 2

C6_Witness ==
    /\ LastIs("append_pair") /\ last.abort = ""
    /\ Appends = (2 ^ HEIGHT) \div 2

\* C7: an append_pair that fails with merkle_tree_overflow leaves next_index,
\* subtrees, root_index and every root_history slot as they were.
C7_OverflowNoMutation ==
    [][(last'.op = "append_pair" /\ last'.abort = "merkle_tree_overflow") =>
           UNCHANGED tree_vars]_vars

C7_Witness ==
    /\ LastIs("append_pair") /\ last.abort = "merkle_tree_overflow"
    /\ DOMAIN root_history = 0..(ROOT_HISTORY_SIZE - 1)

C9_ZeroSentinel ==
    /\ is_known_root(Self, Zero) = ViewReturned(FALSE)
    /\ \A s \in DOMAIN root_history :
           is_known_root([Self EXCEPT !.root_history[s] = Zero], Zero)
               = ViewReturned(FALSE)
    /\ (LastIs("is_known_root") /\ last.args = <<Zero>>) =>
           (last.abort = "" /\ last.ret = FALSE)

C9_Witness ==
    /\ LastIs("is_known_root") /\ last.args = <<Zero>> /\ last.ret = FALSE
    /\ Appends > ROOT_HISTORY_SIZE

\* C10: for every candidate c # 0, is_known_root(c) returns true exactly when
\* some populated slot of root_history holds c, and it never aborts, also
\* while fewer than ROOT_HISTORY_SIZE slots are populated.
C10_KnownIffPopulated ==
    /\ \A c \in RootCandidates \ {Zero} :
           is_known_root(Self, c) = ViewReturned(c \in PopulatedRoots)
    /\ (LastIs("is_known_root") /\ last.args # <<Zero>>) =>
           (last.abort = "" /\ last.ret = (last.args[1] \in PopulatedRoots))

C10_Witness ==
    /\ LastIs("is_known_root") /\ last.ret = FALSE /\ last.args[1] \in Range(roots)
    /\ Cardinality(DOMAIN root_history) = ROOT_HISTORY_SIZE
    /\ root_index < ROOT_HISTORY_SIZE - 1

\* the tree that new and the successful append_pair calls on the first k
\* leaf pairs of ls produce, nothing else having touched it
RECURSIVE TreeAfter(_, _)
TreeAfter(ls, k) ==
    IF k = 0 THEN new
    ELSE append_pair(TreeAfter(ls, k - 1), ls[2 * k - 1], ls[2 * k]).self

\* the root most recently made current
CurrentRoot == roots[Len(roots)]

AppendSucceeded == last.op = "append_pair" /\ last.abort = ""

\* C11: root() always succeeds: in every reachable state root_history holds
\* the key root_index, and root() returns the root computed by the most recent
\* successful append_pair, or the genesis root zero_hashes[HEIGHT] when no
\* append has succeeded.
C11_RootAlwaysSucceeds ==
    /\ table_contains(root_history, root_index)
    /\ root(Self) = ViewReturned(CurrentRoot)
    /\ Appends = 0 => root(Self) = ViewReturned(FullTreeRoot(<<>>))
    /\ LastIs("root") => (last.abort = "" /\ last.ret = CurrentRoot)

C11_Witness ==
    /\ LastIs("root") /\ last.abort = ""
    /\ Appends > ROOT_HISTORY_SIZE
    /\ last.ret = CurrentRoot /\ last.ret # roots[1]

\* C12: the tree returned by new has next_index = 0, root_index = 0, subtrees
\* of length HEIGHT with subtrees[i] = zero_hashes[i] for every i in
\* 0..HEIGHT-1, and a root_history of exactly one entry, slot 0, holding
\* zero_hashes[HEIGHT], the root of the all-empty tree of height HEIGHT.
C12_Initialization ==
    LastIs("new") =>
        /\ next_index = 0
        /\ root_index = 0
        /\ DOMAIN subtrees = 0..(HEIGHT - 1)
        /\ \A i \in 0..(HEIGHT - 1) : subtrees[i] = MerkleNode(<<>>, i, 0)
        /\ DOMAIN root_history = {0}
        /\ root_history[0] = FullTreeRoot(<<>>)

C12_Witness ==
    /\ LastIs("new")
    /\ Self = new
    /\ Cardinality(DOMAIN root_history) = 1

\* C14: next_index never decreases: a successful append_pair increases it by
\* exactly 2, a failed append_pair and every read (root, next_index,
\* is_known_root) leave it unchanged, and it is even in every reachable state.
C14_NextIndexMonotone ==
    [][/\ next_index' >= next_index
       /\ next_index % 2 = 0 /\ next_index' % 2 = 0
       /\ IF last'.op = "append_pair" /\ last'.abort = ""
          THEN next_index' = next_index + 2
          ELSE next_index' = next_index]_vars

C14_Witness ==
    /\ LastIs("next_index") /\ last.ret = next_index
    /\ next_index = 2 ^ HEIGHT

\* C16: a successful append_pair changes only subtrees, next_index, root_index
\* and exactly one slot of root_history, the slot at the new root_index; every
\* other slot keeps its value or its absence, and nothing outside the tree
\* object changes.
C16_AppendFrame ==
    [][(last'.op = "append_pair" /\ last'.abort = "") =>
           /\ root_index' \in DOMAIN root_history'
           /\ DOMAIN root_history' = DOMAIN root_history \cup {root_index'}
           /\ \A s \in DOMAIN root_history' \ {root_index'} :
                  root_history'[s] = root_history[s]
           /\ UNCHANGED pool_vars]_vars

C16_Witness ==
    /\ AppendSucceeded
    /\ Appends > ROOT_HISTORY_SIZE
    /\ Cardinality(PopulatedRoots) = ROOT_HISTORY_SIZE

\* C17: every successful append_pair sets root_index to (old root_index + 1)
\* mod ROOT_HISTORY_SIZE and stores the newly computed root in that slot,
\* overwriting without error the root written there ROOT_HISTORY_SIZE appends
\* earlier; root_index is always in 0..ROOT_HISTORY_SIZE-1.
C17_RingAdvance ==
    [][/\ root_index \in 0..(ROOT_HISTORY_SIZE - 1)
       /\ root_index' \in 0..(ROOT_HISTORY_SIZE - 1)
       /\ (last'.op = "append_pair" /\ last'.abort = "") =>
              /\ root_index' = (root_index + 1) % ROOT_HISTORY_SIZE
              /\ root_history'[root_index'] = FullTreeRoot(leaves')
              /\ Appends >= ROOT_HISTORY_SIZE =>
                     /\ root_index' \in DOMAIN root_history
                     /\ root_history[root_index'] = roots[Len(roots) + 1 - ROOT_HISTORY_SIZE]
       /\ (last'.op = "append_pair" /\ next_index < 2 ^ HEIGHT) => last'.abort = ""]_vars

C17_Witness ==
    /\ AppendSucceeded
    /\ root_index = 1
    /\ Appends = ROOT_HISTORY_SIZE + 1
    /\ RootsDistinct

C15_IndexAssignment ==
    [][IF last'.op = "process_transaction" /\ last'.abort = ""
       THEN /\ Len(leaves') = next_index + 2
            /\ events' = events \o
                   <<NewCommitment(next_index, leaves'[next_index + 1]),
                     NewCommitment(next_index + 1, leaves'[next_index + 2])>>
            /\ MerkleNode(leaves', 0, next_index) = events'[Len(events') - 1].commitment
            /\ MerkleNode(leaves', 0, next_index + 1) = events'[Len(events')].commitment
            /\ root(Self') = ViewReturned(FullTreeRoot(leaves'))
       ELSE events' = events]_vars

C15_Witness ==
    /\ LastIs("process_transaction") /\ last.abort = ""
    /\ Len(events) = 4
    /\ events[3] = NewCommitment(2, Outputs[1])
    /\ events[4] = NewCommitment(3, Outputs[2])

\* C13: in the single-leaf variant, the genesis root new stores in slot 0 of
\* root_history is the hash of an all-empty tree of the full height HEIGHT:
\* the value append's HEIGHT-level hash chain yields over empty leaves, the
\* hash of two empty subtrees of level HEIGHT - 1.
C13_GenesisRootFullHeight ==
    Appends = 0 =>
        /\ root_history[0] = FullTreeRoot(<<>>)
        /\ root_history[0] = append_do(0, 0, ZERO_VALUE, package_new.subtrees).hash
        /\ root_history[0] = <<zeros_vector(HEIGHT - 1), zeros_vector(HEIGHT - 1)>>

\* the elements of the tree of a coin type: the commitments of its documents,
\* in the order of their indices
Committed(coinType) == Elements(fetchCommitmentsFromIndex(collection, coinType, 0))

\* the root of the tree over every commitment stored for the coin type
CommittedRoot(coinType) == tree_root(buildMerkleTree(Committed(coinType)))

\* bit l of a leaf index
Bit(i, l) == (i \div (2 ^ l)) % 2

\* the member of a pair on the side a bit names
Side(pair, bit) == IF bit = 0 THEN pair.left ELSE pair.right

PairHash(pair) == sdk_poseidon2(pair.left, pair.right)

\* C19: for a committed leaf index i whose stored commitment is the UTXO's,
\* getMerklePath returns exactly MERKLE_TREE_HEIGHT pairs: the leaf is in pair
\* 0 on the side bit 0 of i names, poseidon2 of pair l is the member of pair
\* l + 1 on the side bit l + 1 of i names, and poseidon2 of the last pair is
\* the returned root, the current root of the tree.
C19_PathRootConsistency ==
    [][last'.op = "getMerklePath" =>
           LET coinType == last'.args[1]
               i == last'.args[2]
               commitment == makeCommitment(last'.args[3])
               elements == Committed(coinType)
               path == last'.ret.path
           IN  (i >= 0 /\ i < Len(elements) /\ elements[i + 1] = commitment) =>
                   /\ last'.abort = ""
                   /\ Len(path) = MERKLE_TREE_HEIGHT
                   /\ Side(path[1], Bit(i, 0)) = commitment
                   /\ \A l \in 1..(MERKLE_TREE_HEIGHT - 1) :
                          PairHash(path[l]) = Side(path[l + 1], Bit(i, l))
                   /\ PairHash(path[MERKLE_TREE_HEIGHT]) = last'.ret.root
                   /\ last'.ret.root = CommittedRoot(coinType)]_vars

C19_Witness ==
    /\ LastIs("getMerklePath") /\ last.abort = ""
    /\ last.args[2] = 2
    /\ Len(Committed(last.args[1])) = 3
    /\ Committed(last.args[1])[2] # Committed(last.args[1])[3]
    /\ PairHash(last.ret.path[MERKLE_TREE_HEIGHT]) = last.ret.root

\* C20: for a leaf index below 0 or not below the element count of the
\* rebuilt tree, getMerklePath raises no error: it returns MERKLE_TREE_HEIGHT
\* pairs, each [ZERO_VALUE, ZERO_VALUE], with the tree's current root.
C20_OutOfRangeZeroPath ==
    [][last'.op = "getMerklePath" =>
           LET coinType == last'.args[1]
               i == last'.args[2]
               path == last'.ret.path
           IN  (i < 0 \/ i >= Len(Committed(coinType))) =>
                   /\ last'.abort = ""
                   /\ Len(path) = MERKLE_TREE_HEIGHT
                   /\ \A l \in 1..MERKLE_TREE_HEIGHT :
                          path[l] = Pair(ZERO_VALUE, ZERO_VALUE)
                   /\ last'.ret.root = CommittedRoot(coinType)]_vars

C20_Witness ==
    /\ LastIs("getMerklePath") /\ last.abort = ""
    /\ last.args[2] = Len(Committed(last.args[1]))
    /\ last.args[2] > 0
    /\ last.ret.path = zeroPath
    /\ last.ret.root # tree_root(buildMerkleTree(<<>>))

\* the pairs hash up to the root: poseidon2 of each pair is a member of the
\* next pair, and poseidon2 of the last pair is the root
LooksValid(path, r) ==
    /\ Len(path) = MERKLE_TREE_HEIGHT
    /\ \A l \in 1..(MERKLE_TREE_HEIGHT - 1) :
           PairHash(path[l]) \in {path[l + 1].left, path[l + 1].right}
    /\ PairHash(path[MERKLE_TREE_HEIGHT]) = r

\* C21: for a leaf index below 0 or not below the element count of the tree,
\* what getMerklePath returns never looks like a valid path: hashing the
\* returned pairs level by level does not reproduce the returned root, whatever
\* the tree holds.
C21_OutOfRangeNotValid ==
    [][last'.op = "getMerklePath" =>
           LET coinType == last'.args[1]
               i == last'.args[2]
           IN  (i < 0 \/ i >= Len(Committed(coinType))) =>
                   ~LooksValid(last'.ret.path, last'.ret.root)]_vars

C21_Witness ==
    /\ LastIs("getMerklePath") /\ last.abort = ""
    /\ last.args[2] = -1
    /\ Len(Committed(last.args[1])) = 2
    /\ Len(last.ret.path) = MERKLE_TREE_HEIGHT
    /\ ~LooksValid(last.ret.path, last.ret.root)

\* the tree a call with an empty cache builds: a full replay from index 0
ColdTree(coinType) == getOrBuildMerkleTree(collection, <<>>, coinType).tree

\* the cache holds a snapshot of the coin type that lacks stored commitments
DeltaPending(coinType) ==
    /\ redis_has(redis, getTreeKey(coinType))
    /\ getCachedLastIndex(redis, coinType) >= 0
    /\ getCachedLastIndex(redis, coinType) < Stored(coinType) - 1

\* C22: with calls one after another and commitments stored in index order,
\* the tree a call returns from the cache (the cached snapshot plus the
\* commitments with index above the cached last index) has the elements and
\* the root of the tree a call with a cold cache builds by replaying every
\* commitment from index 0, and both leave the same snapshot in the cache.
C22_ColdEqualsWarm ==
    \A coinType \in CoinTypes :
        \A warm \in {getOrBuildMerkleTree(collection, redis, coinType),
                     service_getOrBuildMerkleTree(collection, redis, coinType)} :
            /\ warm.tree.elements = ColdTree(coinType).elements
            /\ tree_root(warm.tree) = tree_root(ColdTree(coinType))
            /\ tree_root(warm.tree) = CommittedRoot(coinType)
            /\ getCachedTree(warm.redis, coinType).tree = ColdTree(coinType)
            /\ getCachedLastIndex(warm.redis, coinType) = Stored(coinType) - 1

C22_Witness ==
    \E coinType \in CoinTypes :
        /\ DeltaPending(coinType)
        /\ Stored(coinType) = 3
        /\ getCachedLastIndex(redis, coinType) = 0
        /\ getOrBuildMerkleTree(collection, redis, coinType).tree = ColdTree(coinType)
        /\ Len(ColdTree(coinType).elements) = 3

\* the elements the cache holds for a coin type, none when it holds no tree
CachedElements(r, coinType) == getCachedTree(r, coinType).tree.elements

\* C23 as stated: with calls for one coin type running concurrently, the
\* cached last index of a coin type never decreases and a snapshot with fewer
\* leaves never replaces one with more.
C23_CacheNeverRegresses ==
    [][\A coinType \in CoinTypes :
           /\ getCachedLastIndex(redis', coinType) >= getCachedLastIndex(redis, coinType)
           /\ Len(CachedElements(redis', coinType)) >= Len(CachedElements(redis, coinType))]_vars

\* the documents of a coin type that carry an index
DocsAt(coinType, index) ==
    {d \in collection : d.coin_type = coinType /\ d.index = index}

\* the elements are the commitments of the documents with the indices
\* 0, 1, 2, ... in this order, one document for each index
ReplaysInOrder(coinType, elements) ==
    \A j \in 0..(Len(elements) - 1) :
        /\ Cardinality(DocsAt(coinType, j)) = 1
        /\ \A d \in DocsAt(coinType, j) : elements[j + 1] = hexToDecimal(d.commitment)

OnlyDb(coinType) == {d \in collection : d.coin_type = coinType}

OnlyRedis(r, coinType) == [k \in {x \in DOMAIN r : x[2] = coinType} |-> r[k]]

OtherRedis(r, coinType) == [k \in {x \in DOMAIN r : x[2] # coinType} |-> r[k]]

\* a call made in this state for the coin type returns and caches what it
\* does when only the documents and keys of the coin type are there, and
\* leaves every other key as it is
CallIndependent(coinType) ==
    \A res \in {getOrBuildMerkleTree(collection, redis, coinType)} :
        \A alone \in {getOrBuildMerkleTree(OnlyDb(coinType),
                                           OnlyRedis(redis, coinType), coinType)} :
            /\ res.tree = alone.tree
            /\ OnlyRedis(res.redis, coinType) = alone.redis
            /\ OtherRedis(res.redis, coinType) = OtherRedis(redis, coinType)

\* the step a call takes from frame c to frame d reads only the keys and the
\* documents of its coin type
StepReadsOwn(c, d) ==
    LET own == OnlyRedis(redis, d.coinType)
        db == OnlyDb(d.coinType)
    IN  /\ c.pc \in {"idle", "returned"} =>
               /\ d.null = getCachedTree(own, d.coinType).null
               /\ d.tree = getCachedTree(own, d.coinType).tree
        /\ c.pc = "getCachedLastIndex" =>
               d.lastIndex = getCachedLastIndex(own, d.coinType)
        /\ c.pc = "fetchCommitmentsFromIndex" =>
               LET n == fetchCommitmentsFromIndex(db, d.coinType, delta_from(c.lastIndex))
               IN  /\ d.pc = "returned" <=> (Len(n) = 0 /\ ~c.null)
                   /\ d.pc = "setTreeKey" =>
                          d.tree = bulkInsert(c.tree, Elements(n))
        /\ c.pc = "fetchAllCommitments" =>
               d.tree = buildMerkleTree(Elements(fetchCommitmentsFromIndex(db, d.coinType, 0)))

\* C25: a call of getOrBuildMerkleTree for coin type A reads and writes only
\* the two cache keys derived from A and reads only the documents with
\* coin_type = A: every step of it leaves the cached tree and last index of
\* every other coin type as they are, whatever calls run beside it, and its
\* result is the one it has when the other coin types are absent.
C25_PoolsIndependent ==
    [][\A p \in Procs :
        calls'[p] # calls[p] =>
           /\ calls[p].pc \in {"idle", "returned"} =>
                  CallIndependent(calls'[p].coinType)
           /\ OtherRedis(redis', calls'[p].coinType)
                  = OtherRedis(redis, calls'[p].coinType)
           /\ DOMAIN redis' \subseteq
                  DOMAIN redis \cup {getTreeKey(calls'[p].coinType),
                                     getLastIndexKey(calls'[p].coinType)}
           /\ collection' = collection
           /\ StepReadsOwn(calls[p], calls'[p])]_vars

C25_Witness ==
    /\ calls[1].coinType = "SUI" /\ calls[1].pc = "setLastIndexKey"
    /\ calls[2].coinType = "USDC" /\ calls[2].pc = "returned"
    /\ Len(CachedElements(redis, "SUI")) = 1
    /\ Len(CachedElements(redis, "USDC")) = 1
    /\ getCachedLastIndex(redis, "USDC") = 0
    /\ getCachedLastIndex(redis, "SUI") = -1

\* nullifiers no transaction of the model spends
FreshNullifiers == <<<<2 * MaxPairs + 1>>, <<2 * MaxPairs + 2>>>>

\* a withdrawal of one coin, directly or through a relayer, whose proof names
\* the current root and passes every check
Withdrawals ==
    {Tx(POOL_ADDRESS, CurrentRoot, FreshNullifiers, Outputs, ChecksPass, v) :
        v \in {c \in ValueCases : ~c.value_sign /\ c.value > 0}}

TreeFull == next_index = 2 ^ HEIGHT

\* C26 as stated: once the tree is full, a transaction that deposits is
\* rejected, and a withdrawal with a known root, unspent nullifiers and a
\* valid proof, of an amount the pool holds, still succeeds.
C26_WithdrawableWhenFull ==
    TreeFull =>
        /\ \A tx \in WellFormed :
               (tx.value_sign /\ tx.value > 0) => process_transaction(Pool, tx).abort # ""
        /\ \A tx \in Withdrawals :
               (RootRetained(tx.root) /\ nullifiers_unspent(Pool, tx.input_nullifiers)
                    /\ tx.value <= balance) =>
                   process_transaction(Pool, tx).abort = ""

\* the roots the last n successful transactions made current, the genesis
\* root counting as the first
LastRoots(rs, n) == {rs[k] : k \in (IF Len(rs) > n THEN Len(rs) - n + 1 ELSE 1)..Len(rs)}

\* C27: append_pair runs exactly once in an accepted pool transaction: a
\* successful process_transaction increases next_index by exactly 2 and moves
\* root_index on by exactly one slot, an aborted one changes nothing of the
\* tree, and the populated slots of root_history hold the roots of the last
\* ROOT_HISTORY_SIZE accepted transactions.
C27_OnceAppendPerTransaction ==
    [][last'.op = "process_transaction" =>
           /\ IF last'.abort = ""
              THEN /\ next_index' = next_index + 2
                   /\ root_index' = (root_index + 1) % ROOT_HISTORY_SIZE
                   /\ Len(leaves') = Len(leaves) + 2
                   /\ Len(roots') = Len(roots) + 1
              ELSE UNCHANGED <<tree_vars, leaves, roots>>
           /\ {root_history'[s] : s \in DOMAIN root_history'}
                  = LastRoots(roots', ROOT_HISTORY_SIZE)
           /\ root_history'[root_index'] = roots'[Len(roots')]]_vars

C27_Witness ==
    /\ LastIs("process_transaction") /\ last.abort = ""
    /\ Len(events) = 2 * (ROOT_HISTORY_SIZE + 1)
    /\ next_index = Len(events)
    /\ PopulatedRoots = LastRoots(roots, ROOT_HISTORY_SIZE)
    /\ roots[1] \notin PopulatedRoots

Views == {"root", "next_index", "is_known_root"}

\* the tree is as the successful append_pair calls that have returned left it
BetweenAppends == Self = TreeAfter(leaves, Len(leaves) \div 2)

C29_ScanTerminates ==
    /\ \A c \in RootCandidates \ {Zero} :
           LET s == slots_checked(Self, c)
               n == Len(s)
           IN  /\ -1 \notin Range(s)
               /\ n >= 1 /\ n <= ROOT_HISTORY_SIZE
               /\ s[1] = root_index
               /\ \A k \in 1..(n - 1) :
                      /\ s[k + 1] = (IF s[k] = 0 THEN ROOT_HISTORY_SIZE - 1 ELSE s[k] - 1)
                      /\ slot_check(Self, c, s[k]) = "differ"
               /\ \A k, m \in 1..n : k # m => s[k] # s[m]
               /\ slot_check(Self, c, s[n]) \in {"match", "differ"}
               /\ slot_check(Self, c, s[n]) = "differ" => n = ROOT_HISTORY_SIZE
               /\ is_known_root(Self, c) = ViewReturned(slot_check(Self, c, s[n]) = "match")
    /\ slots_checked(Self, Zero) = <<>>
    /\ LastIs("is_known_root") => last.abort = ""

C29_Witness ==
    /\ LastIs("is_known_root") /\ last.ret = TRUE
    /\ root_index = 1
    /\ slots_checked(Self, last.args[1]) = <<1, 0, ROOT_HISTORY_SIZE - 1>>

\* zero_hashes[i]: the root of an empty subtree of i levels
ZeroHash(i) == MerkleNode(<<>>, i, 0)

\* current_index at level i of an append_pair on a tree with next_index ni
LevelIndex(ni, i) == (ni \div 2) \div (2 ^ (i - 1))

\* current_hash at level i, for i in 1..HEIGHT, of the append_pair of (a, b)
\* on a tree with next_index ni and the cached siblings st
RECURSIVE LevelHash(_, _, _, _, _)
LevelHash(i, ni, st, a, b) ==
    IF i = 1 THEN poseidon2(a, b)
    ELSE LET below == LevelHash(i - 1, ni, st, a, b)
         IN  IF LevelIndex(ni, i - 1) % 2 = 0
             THEN poseidon2(below, ZeroHash(i - 1))
             ELSE poseidon2(st[i - 1], below)

\* h hashed with the zero hashes of the levels i..HEIGHT-1 on its right
RECURSIVE PadUp(_, _)
PadUp(h, i) == IF i >= HEIGHT THEN h ELSE PadUp(poseidon2(h, ZeroHash(i)), i + 1)

\* C30: a successful append_pair of (a, b) starts from current_hash =
\* poseidon2(a, b) and current_index = next_index / 2; at each level i from 1
\* to HEIGHT - 1, an even current_index sets subtrees[i] to current_hash and
\* hashes it with zero_hashes[i] on the right, an odd one leaves subtrees[i]
\* and hashes it on the left of current_hash; current_index is halved each
\* level and the hash after the last level is the new root.  The first pair
\* gives poseidon2(a, b) padded with zero hashes, the second pair gives
\* poseidon2(poseidon2(a, b), poseidon2(c, d)) padded with zero hashes.
C30_PerLevelStep ==
    [][(last'.op = "append_pair" /\ last'.abort = "") =>
           LET a == last'.args[1]
               b == last'.args[2]
           IN  /\ \A i \in 1..(HEIGHT - 1) :
                      /\ LevelHash(i, next_index, subtrees, a, b)
                             = MerkleNode(leaves', i, LevelIndex(next_index, i))
                      /\ subtrees'[i] = IF LevelIndex(next_index, i) % 2 = 0
                                        THEN LevelHash(i, next_index, subtrees, a, b)
                                        ELSE subtrees[i]
               /\ subtrees'[0] = subtrees[0]
               /\ root_history'[root_index']
                      = LevelHash(HEIGHT, next_index, subtrees, a, b)
               /\ next_index = 0 =>
                      root_history'[root_index'] = PadUp(poseidon2(a, b), 1)
               /\ next_index = 2 =>
                      root_history'[root_index']
                          = PadUp(poseidon2(poseidon2(leaves[1], leaves[2]),
                                            poseidon2(a, b)), 2)]_vars

C30_Witness ==
    /\ LastIs("append_pair") /\ last.abort = ""
    /\ LevelIndex(next_index - 2, 1) % 2 = 1
    /\ LevelIndex(next_index - 2, HEIGHT - 1) % 2 = 1
    /\ root_history[root_index]
           = LevelHash(HEIGHT, next_index - 2, subtrees, last.args[1], last.args[2])
    /\ last.args[1] # last.args[2]

\* the next append_pair reads subtrees[i] as the left operand at level i
ReadsSubtree(i) == LevelIndex(next_index, i) % 2 = 1

\* C31: in every reachable state, at each level i where the next append_pair
\* reads subtrees[i] as the left operand (current_index odd), subtrees[i] is
\* the hash of the left-sibling subtree of that level over the leaves
\* appended so far, every leaf of which has been appended; subtrees[0] is
\* never written and stays zero_hashes[0].
C31_FilledSubtrees ==
    /\ \A i \in 1..(HEIGHT - 1) :
           ReadsSubtree(i) =>
               /\ subtrees[i] = MerkleNode(leaves, i, LevelIndex(next_index, i) - 1)
               /\ LevelIndex(next_index, i) * (2 ^ i) <= Len(leaves)
    /\ subtrees[0] = ZeroHash(0)
    /\ subtrees[0] = new.subtrees[0]

C31_Witness ==
    /\ LastIs("append_pair") /\ last.abort = ""
    /\ \A i \in 1..(HEIGHT - 1) : ReadsSubtree(i)
    /\ subtrees[HEIGHT - 1] = MerkleNode(leaves, HEIGHT - 1, 0)
    /\ leaves[1] # leaves[3]

BothKeys(coinType) ==
    /\ redis_has(redis, getTreeKey(coinType))
    /\ redis_has(redis, getLastIndexKey(coinType))

\* C32 as stated: in every cache state where both keys of a coin type are
\* present, the cached tree holds exactly the commitments with the indices
\* 0..lastIndex, lastIndex + 1 elements, however the GETs and SETs of
\* concurrent calls interleave.
C32_SnapshotConsistent ==
    \A coinType \in CoinTypes :
        BothKeys(coinType) =>
            /\ Len(CachedElements(redis, coinType))
                   = getCachedLastIndex(redis, coinType) + 1
            /\ ReplaysInOrder(coinType, CachedElements(redis, coinType))

\* C33: over any sequence of pool transactions, the indices of the
\* NewCommitment events emitted are 0, 1, ..., 2k - 1 in emission order, k
\* being the number of successful transactions: an aborted transaction emits
\* none, no index is skipped or repeated, and next_index is the number of
\* NewCommitment events emitted so far.
C33_EventIndexSequence ==
    /\ \A k \in 1..Len(events) : events[k].index = k - 1
    /\ Len(events) = 2 * Appends
    /\ next_index = Len(events)
    /\ \A k \in 1..Len(events) : events[k].commitment = leaves[k]
    /\ (LastIs("process_transaction") /\ last.abort # "") =>
           \A tx \in Transactions :
               \A res \in {process_transaction(Pool, tx)} :
                   res.abort # "" => res.self.events = events

C33_Witness ==
    /\ LastIs("process_transaction") /\ last.abort = "nullifier_already_spent"
    /\ Len(events) = 2 ^ HEIGHT
    /\ events[Len(events)].index = 2 ^ HEIGHT - 1

\* appends that have succeeded since the root at position p of roots was
\* made current
FurtherAppends(rs, p) == Len(rs) - p

\* C34: when all roots produced are distinct, a root is known from the append
\* that made it current until exactly ROOT_HISTORY_SIZE further appends have
\* succeeded: it is known after ROOT_HISTORY_SIZE - 1 of them and unknown
\* after ROOT_HISTORY_SIZE; and a root that is_known_root has once answered
\* false for is never known again.
C34_EvictionExactAndPermanent ==
    [][/\ Len(roots) = 1 => is_known_root(Self, roots[1]) = ViewReturned(TRUE)
       /\ (last'.op = "append_pair" /\ Len(roots') > Len(roots) /\ RootsDistinct') =>
              /\ \A p \in 1..Len(roots') :
                     is_known_root(Self', roots'[p])
                         = ViewReturned(FurtherAppends(roots', p) < ROOT_HISTORY_SIZE)
              /\ \A p \in 1..Len(roots) :
                     ~is_known_root(Self, roots[p]).ret
                         => ~is_known_root(Self', roots[p]).ret
       /\ last'.op = "is_known_root" =>
              /\ UNCHANGED <<tree_vars, roots>>
              /\ \A p \in 1..Len(roots') :
                     (roots'[p] = last'.args[1] /\ RootsDistinct') =>
                         last'.ret = (FurtherAppends(roots', p) < ROOT_HISTORY_SIZE)
       /\ (last'.op = "append_pair" /\ Len(roots') = Len(roots)) =>
              UNCHANGED tree_vars]_vars

C34_Witness ==
    /\ LastIs("is_known_root") /\ last.ret = FALSE
    /\ FurtherAppends(roots, 2) = ROOT_HISTORY_SIZE
    /\ RootsDistinct
    /\ last.args[1] = roots[2]
    /\ is_known_root(Self, roots[3]).ret

\* C35: ring/leaf-count coupling.  In every reachable state root_index is
\* (next_index / 2) mod ROOT_HISTORY_SIZE, the populated root_history slots are
\* exactly 0..min(next_index / 2, ROOT_HISTORY_SIZE - 1), and root_history
\* never holds more than ROOT_HISTORY_SIZE entries.
PairsAppended == next_index \div 2

HighestSlot ==
    IF PairsAppended < ROOT_HISTORY_SIZE - 1 THEN PairsAppended ELSE ROOT_HISTORY_SIZE - 1

C35_RingLeafCoupling ==
    /\ root_index = PairsAppended % ROOT_HISTORY_SIZE
    /\ DOMAIN root_history = 0..HighestSlot
    /\ Cardinality(DOMAIN root_history) <= ROOT_HISTORY_SIZE

C35_Witness ==
    /\ LastIs("append_pair")
    /\ PairsAppended > ROOT_HISTORY_SIZE
    /\ root_index = 1
    /\ DOMAIN root_history = 0..(ROOT_HISTORY_SIZE - 1)
    /\ root_history[root_index] = roots[Len(roots)]

\* C36: for an in-range leaf index whose stored tree element differs from the
\* commitment recomputed from the supplied UTXO data, getMerklePath raises a
\* "Commitment mismatch" error and returns no path and no root; for an
\* in-range index a path is returned only when the two commitments are equal.
C36_CommitmentMismatch ==
    [][last'.op = "getMerklePath" =>
           LET stored == Committed(last'.args[1])
               i == last'.args[2]
               commitment == makeCommitment(last'.args[3])
           IN  (i >= 0 /\ i < Len(stored)) =>
                   /\ stored[i + 1] # commitment =>
                          /\ last'.abort = "Commitment mismatch"
                          /\ last'.ret.path = <<>>
                          /\ last'.ret.root = Zero
                   /\ last'.abort = "" =>
                          /\ stored[i + 1] = commitment
                          /\ Len(last'.ret.path) = MERKLE_TREE_HEIGHT]_vars

C36_Witness ==
    /\ LastIs("getMerklePath") /\ last.abort = "Commitment mismatch"
    /\ Len(Committed(last.args[1])) = 2
    /\ last.args[2] = 1
    /\ Committed(last.args[1])[2] # makeCommitment(last.args[3])
    /\ Committed(last.args[1])[1] = makeCommitment(last.args[3])
    /\ last.ret.path = <<>>

\* the NewPool events of a coin type: the calls of new<CoinType> that succeeded
PoolsCreated(evs, coinType) ==
    {k \in 1..Len(evs) : evs[k].type = "NewPool" /\ evs[k].coin_type = coinType}

\* call k of the transaction asks for a coin type that has a pool by then
Repeats(coinTypes, k) ==
    \/ type_name_string(coinTypes[k]) \in DOMAIN pools
    \/ \E j \in 1..(k - 1) : coinTypes[j] = coinTypes[k]

\* C37: one pool per coin type.  For the registry, new<CoinType> succeeds at
\* most once per coin type; a call for a coin type that has a pool aborts with
\* pool_already_exists and leaves registry.pools unchanged, so registry.pools
\* maps each coin type to at most one pool address, which never changes once
\* set.
C37_OnePoolPerCoinType ==
    [][/\ \A id \in DOMAIN pools : id \in DOMAIN pools' /\ pools'[id] = pools[id]
       /\ \A coinType \in PoolCoinTypes :
              /\ Cardinality(PoolsCreated(registry_events', coinType)) <= 1
              /\ Cardinality({v \in shared_pools' : v.coin_type = coinType}) <= 1
              /\ vortex_address(Registry(pools', encryption_keys'), coinType)
                     = IF PoolsCreated(registry_events', coinType) = {} THEN <<>>
                       ELSE <<registry_events'[CHOOSE k \in
                                 PoolsCreated(registry_events', coinType) : TRUE].address>>
       /\ last'.op = "new" =>
              LET coinTypes == last'.args[1]
              IN  IF \E k \in 1..Len(coinTypes) : Repeats(coinTypes, k)
                  THEN /\ last'.abort = "pool_already_exists"
                       /\ UNCHANGED <<pools, shared_pools, registry_events>>
                  ELSE /\ last'.abort = ""
                       /\ DOMAIN pools' = DOMAIN pools \cup
                              {type_name_string(coinTypes[k]) : k \in 1..Len(coinTypes)}]_vars

C37_Witness ==
    /\ LastIs("new") /\ last.abort = "pool_already_exists"
    /\ Len(last.args[1]) = 1
    /\ type_name_string(last.args[1][1]) \in DOMAIN pools
    /\ Cardinality(PoolsCreated(registry_events, last.args[1][1])) = 1
    /\ Cardinality(DOMAIN pools) = 2

====
